---- MODULE Spec2Model ----
(***************************************************************************)
(* AR-Boxing: the punch-detection, collision, scoring and round loop of    *)
(* the three game variants of the repository,                              *)
(*   "pooled"   src/javascript.js      class OptimizedBoxingGame   (P_...) *)
(*   "velocity" src/unnamed/part_000   class BoxingGame, velocity bonus    *)
(*                                                                 (V_...) *)
(*   "simple"   src/unnamed/part_001   class BoxingGame, ray test  (S_...) *)
(* as one state machine.  The variant is fixed by Init.  The methods of    *)
(* the classes are operators from the object's state (the record `this`)   *)
(* to its next state, composed as the code composes them; every action is  *)
(* one event-loop task of the page (a handler, a frame callback, the       *)
(* resumption of an await) run to its next suspension point.               *)
(*                                                                         *)
(* Units.  Times are milliseconds of performance.now().  timeLeft is in    *)
(* seconds; the code takes 1/60 s per frame (3600 frames a round), the     *)
(* model takes FrameDt = 60/FramesPerRound seconds per frame, and a target *)
(* crosses the play volume in as few frames.  Depth z is in world units.   *)
(* Hands move along the line y = 0 of the screen, x in pixels.  Particle   *)
(* life and difficulty values are in hundredths.                           *)
(***************************************************************************)
EXTENDS Integers, Sequences, FiniteSets, TLC

(* ------------------------------ bounds -------------------------------- *)
\* frames of one round (the code: 3600)
FramesPerRound == 4
\* targets spawned in one run of the model (ids 1..MaxSpawns)
MaxSpawns == 2
\* the clock stops after MaxCooldowns * (punchCooldown + 50) ms
MaxCooldowns == 2
\* pooled: handLoopTick calls that may be suspended in estimateHands at once
MaxAwait == 1
\* frame-callback chains that may be live at once
MaxLoops == 2
\* hands one estimateHands result may hold
MaxHands == 2
\* the same four under the play scope (PlayScope below): cooldowns on the
\* clock, hands per result; and under the timing scope: targets, chains
PlayCooldowns == 1
PlayHands == 1
TimingSpawns == 1
TimingLoops == 1
\* particles modelled per burst (the code: 10, 20, or 20..50)
BurstCap == 1
\* the length of the distance fallback's direction vector saturates here
DirCap == 100
PoolSpawns == 2
LongDt == 1
LongSpawns == 2

(* ------------------------- program constants -------------------------- *)
RoundTime == 60
maxObjects == 18
maxParticles == 120
punchVelocityThreshold == 10
punchDistanceThreshold == 90
punchThreshold == 25
DefaultVelocity == 50
ExtendedDistance == 40
CameraZ == 5
\* punchRange 0.8, in twentieths of a world unit
punchRange == 16
\* hundredths of life a particle without a decay of its own loses per frame
DefaultDecay == 3

Variants == {"pooled", "velocity", "simple"}
Types == {"normal", "bonus", "danger", "explosive"}
\* an estimateHands entry without the keypoints the variant needs
NoHand == -1
\* handLastSample before the first sample (null in the code)
NoSample == [x |-> -1, t |-> -1]
\* the positions a hand is seen at
HandXs == {100, 120}
PlayXs == {10, 120}
\* simple variant: distances between index fingertip and wrist
ReachSet == {40, 50}

Max(a, b) == IF a >= b THEN a ELSE b
Min(a, b) == IF a <= b THEN a ELSE b
Abs(a) == IF a >= 0 THEN a ELSE -a
SetMax(S) == CHOOSE m \in S : \A k \in S : k <= m
Range(s) == {s[k] : k \in 1..Len(s)}
RemoveAt(s, i) == SubSeq(s, 1, i - 1) \o SubSeq(s, i + 1, Len(s))

VARIABLES
    variant,        \* which of the three classes runs
    initState,      \* progress of init(): new, loading, ready, nohands, failed
    now,            \* performance.now()
    score, timeLeft, gameActive, gameSpeed, spawnRate,
    objects,        \* active targets, in array order
    particles,      \* active particles, in array order
    nextId,         \* identity of the next spawned target
    lastPunchTime,
    handLastSample, \* pooled: last hand sample {x, t}, or NoSample for null
    handVel,        \* pooled: smoothed screen velocity, thousandths of px/s
    handHistory,    \* velocity: per hand slot {x, time}
    hands,          \* velocity, simple: the last estimateHands result
    handTimer,      \* pooled: the setInterval of handLoopTick is armed
    rafCur,         \* pooled: the frame callback _rafId names is pending
    rafOther,       \* pending frame callbacks no variable names
    awaiting,       \* async calls suspended in estimateHands
    gameLoopRunning,
    hitCount,       \* history: how often each spawned target was resolved as hit
    lastHit,        \* history: the sign of the last hit, if it was in this round and
                    \* no time has passed since: none, positive, negative
    slowOnly,       \* history: no hand moved at or above the threshold between samples
    startRefused,   \* history: startGame returned at its `initialized` test after
                    \* init() had ended
    uiScore,        \* textContent of #scoreValue
    uiTime,         \* textContent of #timerValue
    objLeak,        \* pooled: visible meshes of objectPool that are not in objects
    partLeak,       \* pooled: visible meshes of particlePool that are not in particles
    framesPerRound, \* frames of one round in this run (the code: 3600)
    clock,          \* the timer of a round at the resolution of the code: the
                    \* double in this.timeLeft, in units of 2^-58
    ticks           \* history: the ticks the timer of this round has run

vars == <<variant, initState, now, score, timeLeft, gameActive, gameSpeed,
          spawnRate, objects, particles, nextId, lastPunchTime, handLastSample,
          handVel, handHistory, hands, handTimer, rafCur, rafOther, awaiting,
          gameLoopRunning, hitCount, lastHit, slowOnly, startRefused, uiScore,
          uiTime, objLeak, partLeak, framesPerRound, clock, ticks>>

\* the game object, as the methods see it
this ==
    [score |-> score, timeLeft |-> timeLeft, gameActive |-> gameActive,
     gameSpeed |-> gameSpeed, spawnRate |-> spawnRate, objects |-> objects,
     particles |-> particles, nextId |-> nextId, lastPunchTime |-> lastPunchTime,
     handLastSample |-> handLastSample, handVel |-> handVel,
     handHistory |-> handHistory, hands |-> hands, handTimer |-> handTimer,
     rafCur |-> rafCur, rafOther |-> rafOther, awaiting |-> awaiting,
     gameLoopRunning |-> gameLoopRunning,
     hitCount |-> hitCount, lastHit |-> lastHit, slowOnly |-> slowOnly,
     startRefused |-> startRefused, uiScore |-> uiScore, uiTime |-> uiTime,
     objLeak |-> objLeak, partLeak |-> partLeak]

\* the task ends with the game object in state t
Become(t) ==
    /\ score' = t.score
    /\ timeLeft' = t.timeLeft
    /\ gameActive' = t.gameActive
    /\ gameSpeed' = t.gameSpeed
    /\ spawnRate' = t.spawnRate
    /\ objects' = t.objects
    /\ particles' = t.particles
    /\ nextId' = t.nextId
    /\ lastPunchTime' = t.lastPunchTime
    /\ handLastSample' = t.handLastSample
    /\ handVel' = t.handVel
    /\ handHistory' = t.handHistory
    /\ hands' = t.hands
    /\ handTimer' = t.handTimer
    /\ rafCur' = t.rafCur
    /\ rafOther' = t.rafOther
    /\ awaiting' = t.awaiting
    /\ gameLoopRunning' = t.gameLoopRunning
    /\ hitCount' = t.hitCount
    /\ lastHit' = t.lastHit
    /\ slowOnly' = t.slowOnly
    /\ startRefused' = t.startRefused
    /\ uiScore' = t.uiScore
    /\ uiTime' = t.uiTime
    /\ objLeak' = t.objLeak
    /\ partLeak' = t.partLeak
    /\ UNCHANGED <<variant, initState, now, framesPerRound, clock, ticks>>

(* ------------------------- per-variant constants ----------------------- *)
FrameDt == RoundTime \div framesPerRound

punchCooldown ==
    CASE variant = "pooled" -> 350
      [] variant = "velocity" -> 200
      [] variant = "simple" -> 300

\* a spawn table with one value for every type
TypePoints_flat(ty) == 10

\* the spawn table of spawnObject / createObject (the same in the three files)
TypePoints(ty) ==
    CASE ty = "normal" -> 10
      [] ty = "bonus" -> 50
      [] ty = "danger" -> -20
      [] ty = "explosive" -> 30

\* spawn depth: -6 - random*3 (pooled), -15 (velocity), -10 (simple)
SpawnZ ==
    CASE variant = "pooled" -> -6
      [] variant = "velocity" -> -15
      [] variant = "simple" -> -10

\* a target is retired once z > DespawnZ
DespawnZ == IF variant = "pooled" THEN 3 ELSE 2

\* advance per frame, compressed like the round: a target is retired by the
\* third updatePhysics after its spawn
Vz ==
    CASE variant = "pooled" -> 4
      [] variant = "velocity" -> 7
      [] variant = "simple" -> 5

detector == initState = "ready"
initialized == initState \in {"loading", "ready", "nohands"}
poolsReady == initState \in {"ready", "nohands"}
listening == initState \in {"loading", "ready", "nohands"}

(* --------------------------- the round timer --------------------------- *)
\* this.timeLeft is an IEEE-754 double.  A double of the timer is kept as its
\* sign and its magnitude in units of 2^-58 (the last place of 1/60), a number
\* below 2^64 in four limbs of 16 bits, least significant first.
LimbBits == 16
MantissaBits == 53
\* 60.0 = 0xF000000000000000 * 2^-58
Sixty == [neg |-> FALSE, mag |-> <<0, 0, 0, 61440>>]
\* 1/60 as the division rounds it: 0x11111111111111 * 2^-58
FrameTime == <<4369, 4369, 4369, 17>>

RECURSIVE Bits(_)
Bits(n) == IF n = 0 THEN 0 ELSE 1 + Bits(n \div 2)

\* the number of significant bits of a magnitude
BitLen(a) ==
    LET used == {i \in 1..4 : a[i] # 0}
    IN IF used = {} THEN 0
       ELSE LimbBits * (SetMax(used) - 1) + Bits(a[SetMax(used)])

LimbLeq(a, b) ==
    LET diff == {i \in 1..4 : a[i] # b[i]}
    IN diff = {} \/ a[SetMax(diff)] < b[SetMax(diff)]

\* a - b from limb i on, for a >= b
RECURSIVE LimbSub(_, _, _, _)
LimbSub(a, b, i, borrow) ==
    IF i > 4 THEN <<>>
    ELSE LET d == a[i] - b[i] - borrow
         IN <<IF d < 0 THEN d + 2^LimbBits ELSE d>>
                \o LimbSub(a, b, i + 1, IF d < 0 THEN 1 ELSE 0)

\* a with c added at limb i
RECURSIVE LimbAdd(_, _, _)
LimbAdd(a, i, c) ==
    IF i > 4 THEN <<>>
    ELSE <<(a[i] + c) % 2^LimbBits>> \o LimbAdd(a, i + 1, (a[i] + c) \div 2^LimbBits)

\* the exact result of an operation rounded to a double: to 53 significant
\* bits, to the nearest, ties to even
RoundDouble(x) ==
    LET q == 2^Max(0, BitLen(x) - MantissaBits)
        low == x[1] % q
        kept == [x EXCEPT ![1] = @ - low]
        up == 2 * low > q \/ (2 * low = q /\ (x[1] \div q) % 2 = 1)
    IN IF up THEN LimbAdd(kept, 1, q) ELSE kept

(* ------------------------------- scopes -------------------------------- *)
\* The environment is explored under scopes.  The play scope varies the
\* targets (four types, several at once, several frame chains) and lets a hand
\* make one punching move; the timing scope varies the hands (two hands, two
\* positions, time steps of exactly the cooldown and of more) over one kind
\* of target.  Two more, further down, follow a long round and a round whose
\* pools are nearly used up.
PlayScope ==
    [types |-> Types, spawns |-> MaxSpawns, loops |-> MaxLoops,
     hands |-> PlayHands, xs |-> PlayXs, steps |-> {50}, cooldowns |-> PlayCooldowns,
     lives |-> {90, 129}, decays |-> {2, 5}, dists |-> {80, 90}]
TimingScope ==
    [types |-> {"normal"}, spawns |-> TimingSpawns, loops |-> TimingLoops,
     hands |-> MaxHands, xs |-> HandXs, steps |-> {0, 50}, cooldowns |-> MaxCooldowns,
     lives |-> {90}, decays |-> {2}, dists |-> {80, 90}]

\* the clock advances by the cooldown plus one of sc.steps, up to MaxNow(sc)
MaxNow(sc) == sc.cooldowns * (punchCooldown + 50)
ElapseSteps(sc) == {punchCooldown + d : d \in sc.steps}

(* ------------------------------ helpers -------------------------------- *)
\* Math.round of num/den (den > 0): halves round towards +infinity
JSRound(num, den) == (2 * num + den) \div (2 * den)

\* Math.ceil of num/den (den > 0)
JSCeil(num, den) == -((-num) \div den)

\* updateUI: the score and the whole seconds left are written to the page; the
\* velocity variant clamps the seconds at 0
updateUI(t) ==
    [t EXCEPT !.uiScore = t.score,
              !.uiTime = IF variant = "velocity" THEN Max(0, JSCeil(t.timeLeft, 1))
                         ELSE JSCeil(t.timeLeft, 1)]

\* age (history): the updatePhysics calls the particle has been through
Particle(life, decay, flash) ==
    [life |-> life, decay |-> decay, flash |-> flash, age |-> 0]

\* the clock comparison of the spawn step
\* (performance.now()/1000 - lastSpawnTime > spawnRate) and the random type are
\* inputs of the frame: NoSpawn when the comparison is false
NoSpawn == "none"
SpawnInputs(sc) == IF nextId <= sc.spawns THEN {NoSpawn} \cup sc.types ELSE {NoSpawn}

\* the results of estimateHands: up to sc.hands entries, each a hand at one of
\* the positions, or one without the keypoints
HandResults(sc, S) == UNION {[1..n -> S \cup {NoHand}] : n \in 0..sc.hands}

NewObject(t, ty) ==
    [id |-> t.nextId, type |-> ty, points |-> TypePoints(ty), z |-> SpawnZ]

\* position.z += velocity
Advance(o) == [o EXCEPT !.z = @ + Vz]
Decay(p) == [p EXCEPT !.life = @ - (IF p.decay # 0 THEN p.decay ELSE DefaultDecay)]
\* every particle left in the list has been through one more updatePhysics
Aged(parts) == [k \in 1..Len(parts) |-> [parts[k] EXCEPT !.age = @ + 1]]
\* one pass of a loop body over every element
AdvanceAll(objs) == [k \in 1..Len(objs) |-> Advance(objs[k])]
DecayAll(parts) == [k \in 1..Len(parts) |-> Decay(parts[k])]

\* a hand moved at or above the threshold thr (px/s): dx pixels in dt ms
Fast(dx, dt, thr) == dt > 0 /\ Abs(dx) * 1000 >= thr * dt

\* a hitObject that leaves the target in the active list
Resolve_kept(t, i, post, parts) ==
    [t EXCEPT !.score = post,
              !.particles = parts,
              !.hitCount[t.objects[i].id] = @ + 1,
              !.lastHit = IF t.objects[i].points > 0 THEN "positive" ELSE "negative"]

\* what every hitObject does besides computing the new score: the burst, the
\* removal from the active list, and the history of the hit
Resolve(t, i, post, parts) ==
    LET obj == t.objects[i] IN
    [t EXCEPT !.score = post,
              !.objects = SelectSeq(t.objects, LAMBDA o : o # obj),
              !.particles = parts,
              !.hitCount[obj.id] = @ + 1,
              !.lastHit = IF obj.points > 0 THEN "positive" ELSE "negative"]

(* =============================== pooled =============================== *)
\* pixel distances of a punch point to the projected targets
DistSet == {80, 90}
\* a burst: the lives (0.9 + random * 0.4) of its particles
P_Bursts(sc) == [1..Min(10, BurstCap) -> sc.lives]

\* the pools hold maxObjects and maxParticles meshes once preparePools has run
\* and none before; a mesh is free while it is invisible.  The visible ones
\* are the active ones and those a startGame dropped from the lists.
P_freeObjects(t) ==
    (IF poolsReady THEN maxObjects ELSE 0) - Len(t.objects) - t.objLeak
P_freeParticles(t, parts) ==
    (IF poolsReady THEN maxParticles ELSE 0) - Len(parts) - t.partLeak

\* a spawnParticles that creates a mesh when the pool has no free one
RECURSIVE P_spawnParticles_grow(_, _, _)
P_spawnParticles_grow(t, parts, lives) ==
    IF lives = <<>> THEN parts
    ELSE P_spawnParticles_grow(t, Append(parts, Particle(Head(lives), 0, FALSE)),
                               Tail(lives))

\* spawnParticles: up to count particles, each from a free pool mesh; the loop
\* breaks at the first find() that returns nothing
RECURSIVE P_spawnParticles(_, _, _)
P_spawnParticles(t, parts, lives) ==
    IF lives = <<>> \/ P_freeParticles(t, parts) <= 0 THEN parts
    ELSE P_spawnParticles(t, Append(parts, Particle(Head(lives), 0, FALSE)), Tail(lives))

\* hitObject without the Math.max(0, ...) of line 335
P_hitObject_unclamped(t, i, lives) ==
    updateUI(Resolve(t, i, t.score + t.objects[i].points,
                     P_spawnParticles(t, t.particles, lives)))

P_hitObject(t, i, lives) ==
    updateUI(Resolve(t, i, Max(0, t.score + t.objects[i].points),
                     P_spawnParticles(t, t.particles, lives)))

\* camera-space depth of a target: the camera sits at z = 5 and is not rotated
P_zDepth(obj) == obj.z - CameraZ

\* detectPunchCollision: from the last target to the first, the first one within
\* the pixel threshold (and the depth test) is hit, and the loop breaks
P_detectPunchCollision(t, dists, lives) ==
    LET cand == {i \in 1..Len(t.objects) :
                    dists[i] < punchDistanceThreshold /\ P_zDepth(t.objects[i]) < 3}
    IN IF cand = {} THEN t ELSE P_hitObject(t, SetMax(cand), lives)

\* an endGame that leaves the lists as they are
P_endGame_kept(t) ==
    [t EXCEPT !.gameActive = FALSE, !.rafCur = FALSE, !.handTimer = FALSE,
              !.lastHit = "none"]

P_endGame(t) ==
    [t EXCEPT !.gameActive = FALSE,
              !.rafCur = FALSE,         \* cancelAnimationFrame(this._rafId)
              !.handTimer = FALSE,      \* clearInterval(this.handIntervalId)
              !.objects = <<>>,
              !.particles = <<>>,
              !.lastHit = "none"]

\* requestAnimationFrame: _rafId names the new callback, not the one it named
P_requestFrame(t) ==
    [t EXCEPT !.rafOther = @ + (IF t.rafCur THEN 1 ELSE 0), !.rafCur = TRUE]

\* the lists are emptied without hiding their meshes
P_startGame(t) ==
    P_requestFrame(updateUI([t EXCEPT !.score = 0,
                                      !.timeLeft = RoundTime,
                                      !.gameActive = TRUE,
                                      !.objects = <<>>,
                                      !.particles = <<>>,
                                      !.objLeak = @ + Len(t.objects),
                                      !.partLeak = @ + Len(t.particles),
                                      !.lastHit = "none"]))

P_restartGame(t) == P_startGame(P_endGame(t))

\* a spawnObject that creates a mesh when the pool has no free one
P_spawnObject_grow(t, ty) ==
    [t EXCEPT !.objects = Append(@, NewObject(t, ty)), !.nextId = @ + 1]

\* spawnObject: a free pool mesh becomes a target; no free mesh, no target
P_spawnObject(t, ty) ==
    IF P_freeObjects(t) <= 0 THEN t
    ELSE [t EXCEPT !.objects = Append(@, NewObject(t, ty)), !.nextId = @ + 1]

\* updateGameState: the tick that ends the round returns before updateUI
P_updateGameState(t, sp) ==
    LET t1 == [t EXCEPT !.timeLeft = @ - FrameDt] IN
    IF t1.timeLeft <= 0 THEN P_endGame(t1)
    ELSE IF sp # NoSpawn /\ Len(t1.objects) < maxObjects
         THEN updateUI(P_spawnObject(t1, sp))
    ELSE updateUI(t1)

\* updatePhysics: both loops run backwards, so a splice skips nothing
P_updatePhysics(t) ==
    [t EXCEPT !.objects = SelectSeq(AdvanceAll(@), LAMBDA o : ~(o.z > DespawnZ)),
              !.particles = Aged(SelectSeq(DecayAll(@), LAMBDA p : ~(p.life <= 0)))]

\* one frame callback; `throws`: renderScene raises, and nothing catches it
P_gameLoop(t, sp, throws) ==
    IF ~t.gameActive THEN t
    ELSE LET t2 == P_updatePhysics(P_updateGameState(t, sp)) IN
         IF throws THEN t2 ELSE P_requestFrame(t2)

\* the smoothed velocity after a sample at x: v*0.6 + raw*0.4 when dt > 0
P_smoothed(t, x) ==
    LET last == t.handLastSample IN
    IF last # NoSample /\ now - last.t > 0
    THEN (t.handVel * 6 + (((x - last.x) * 1000000) \div (now - last.t)) * 4) \div 10
    ELSE t.handVel

\* a hand loop without the cooldown test
P_cooldownOver_always(t) == TRUE

\* the cooldown test of the hand loop
P_cooldownOver(t) == now - t.lastPunchTime > punchCooldown

\* a handLoopTick without the `if (index)` test of line 242
P_handLoopTick_unchecked(t, x, dists, lives) ==
    LET last == t.handLastSample
        v == P_smoothed(t, x)
        t1 == [t EXCEPT !.handVel = v, !.handLastSample = [x |-> x, t |-> now]]
    IN IF Abs(v) > punchVelocityThreshold * 1000 /\ P_cooldownOver(t1)
       THEN P_detectPunchCollision([t1 EXCEPT !.lastPunchTime = now], dists, lives)
       ELSE t1

\* handLoopTick after estimateHands resolved: x is the index fingertip, NoHand
\* when there is no hand, no fingertip, or the call threw
P_handLoopTick(t, x, dists, lives) ==
    IF x = NoHand THEN t
    ELSE LET last == t.handLastSample
             v == P_smoothed(t, x)
             t1 == [t EXCEPT !.handVel = v,
                             !.handLastSample = [x |-> x, t |-> now],
                             !.slowOnly = @ /\ ~(last # NoSample /\
                                 Fast(x - last.x, now - last.t, punchVelocityThreshold))]
         IN IF Abs(v) > punchVelocityThreshold * 1000 /\ P_cooldownOver(t1)
            THEN P_detectPunchCollision([t1 EXCEPT !.lastPunchTime = now], dists, lives)
            ELSE t1

(* -------- pooled: the tasks -------- *)
RafCount == rafOther + (IF rafCur THEN 1 ELSE 0)

P_OnStart(sc) ==
    /\ variant = "pooled" /\ listening
    /\ RafCount < sc.loops
    /\ Become(P_startGame(this))

P_OnRestart(sc) ==
    /\ variant = "pooled" /\ listening
    /\ rafOther < sc.loops
    /\ Become(P_restartGame(this))

\* a pending frame callback runs: the one _rafId names, or another one
P_OnFrame(sc) ==
    \E which \in {"cur", "other"}, sp \in SpawnInputs(sc), throws \in BOOLEAN :
        /\ variant = "pooled"
        /\ IF which = "cur" THEN rafCur ELSE rafOther > 0
        /\ Become(P_gameLoop(IF which = "cur" THEN [this EXCEPT !.rafCur = FALSE]
                             ELSE [this EXCEPT !.rafOther = @ - 1], sp, throws))

\* the interval timer starts a handLoopTick, which suspends in estimateHands
P_OnInterval ==
    /\ variant = "pooled"
    /\ handTimer /\ detector
    /\ awaiting < MaxAwait
    /\ Become([this EXCEPT !.awaiting = @ + 1])

\* estimateHands settles and the handLoopTick runs to its end
P_OnHands(sc) ==
    \E x \in sc.xs \cup {NoHand}, dists \in [1..Len(objects) -> sc.dists],
       lives \in P_Bursts(sc) :
        /\ variant = "pooled"
        /\ awaiting > 0
        /\ Become(P_handLoopTick([this EXCEPT !.awaiting = @ - 1], x, dists, lives))

\* keydown (Space -> simulatePunch, a random point) and click
\* (simulatePunchAtPosition): both guarded by gameActive and by a debounce the
\* press is taken to have passed
P_OnPress(sc) ==
    \E dists \in [1..Len(objects) -> sc.dists], lives \in P_Bursts(sc) :
        /\ variant = "pooled" /\ listening
        /\ gameActive
        /\ Become(P_detectPunchCollision(this, dists, lives))

(* ============================== velocity ============================== *)
\* distance, in twentieths of a world unit, between a target and the point of
\* the punch ray that lies as far from the camera as the target
ChordSet == {10, 20}

V_endGame(t) ==
    [t EXCEPT !.gameActive = FALSE, !.objects = <<>>, !.particles = <<>>,
              !.lastHit = "none"]

V_requestFrame(t) == [t EXCEPT !.rafOther = @ + 1]

\* createExplosionEffect: min(50, 20 + velocity/2) particles, then the flash of
\* createFlashEffect, whose userData has a life but no velocity and no decay
V_createExplosionEffect(parts, vnum, vden, decay) ==
    LET count == Min(BurstCap, Min(50, 20 + vnum \div (2 * vden))) IN
    parts \o [k \in 1..count |-> Particle(100, decay, FALSE)]
          \o <<Particle(100, 0, TRUE)>>

\* the points of a hit without the Math.min(2.0, ...) of line 451
V_points_uncapped(obj, vnum, vden) == JSRound(obj.points * vnum, punchThreshold * vden)

\* the points of a hit at velocity vnum/vden px/s:
\* round(points * min(2, velocity / punchThreshold))
V_points(obj, vnum, vden) ==
    IF vnum >= 2 * punchThreshold * vden THEN 2 * obj.points
    ELSE JSRound(obj.points * vnum, punchThreshold * vden)

V_hitObject(t, i, vnum, vden, decay) ==
    updateUI(Resolve(t, i, Max(0, t.score + V_points(t.objects[i], vnum, vden)),
                     V_createExplosionEffect(t.particles, vnum, vden, decay)))

\* |dir| had the loop scaled a copy of dir
V_scaled_fresh(s, d) == s

\* |dir| after dir.multiplyScalar(distance): the vector is scaled in place
V_scaled(s, d) == Min(DirCap, s * d)

\* checkDistanceCollision from its k-th target on.  objs is the array forEach
\* walks, s the length dir has by now (1 at first).  The punch position lies
\* s * d from the camera on the ray, the target d from the camera and
\* chords[k] from the ray's point at distance d, so that
\* objectDistance^2 = d^2 (s-1)^2 + s chord^2.
RECURSIVE V_checkDistanceCollision(_, _, _, _, _, _)
V_checkDistanceCollision(t, objs, chords, k, s, decay) ==
    IF k > Len(objs) THEN t
    ELSE LET obj == objs[k]
             d == CameraZ - obj.z
             objectDistance2 == (20 * d) * (20 * d) * (s - 1) * (s - 1)
                                  + s * chords[k] * chords[k]
             i == CHOOSE j \in 1..Len(t.objects) : t.objects[j] = obj
         IN IF t.hitCount[obj.id] > 0
            THEN V_checkDistanceCollision(t, objs, chords, k + 1, s, decay)
            ELSE V_checkDistanceCollision(
                    IF objectDistance2 < punchRange * punchRange
                    THEN V_hitObject(t, i, DefaultVelocity, 1, decay) ELSE t,
                    objs, chords, k + 1, V_scaled(s, d), decay)

\* detectPunchCollision: rayHit is the nearest target the ray meets (0: none)
V_detectPunchCollision(t, rayHit, chords, vnum, vden, decay) ==
    IF rayHit \in 1..Len(t.objects)
    THEN V_hitObject(t, rayHit, vnum, vden, decay)
    ELSE V_checkDistanceCollision(t, t.objects, chords, 1, 1, decay)

\* checkCollisions, the test of one hand: the sample of hand k is a punch when
\* it is faster than punchThreshold and the cooldown since lastPunchTime, which
\* the two hands share, is over
V_isPunch(t, k) ==
    LET x == t.hands[k]
        h == t.handHistory[IF k = 1 THEN "left" ELSE "right"]
    IN /\ x # NoHand
       /\ now - h.time > 0
       /\ Abs(x - h.x) * 1000 > punchThreshold * (now - h.time)
       /\ now - t.lastPunchTime > punchCooldown

\* checkCollisions from the k-th hand of this.hands on
RECURSIVE V_checkCollisions(_, _, _, _, _)
V_checkCollisions(t, k, rayHit, chords, decay) ==
    IF k > Len(t.hands) THEN t
    ELSE LET x == t.hands[k]
             handKey == IF k = 1 THEN "left" ELSE "right"
             h == t.handHistory[handKey]
             timeDiff == now - h.time
             vnum == Abs(x - h.x) * 1000
             t1 == [t EXCEPT !.handHistory[handKey] = [x |-> x, time |-> now],
                             !.slowOnly = @ /\ ~(h.time > 0 /\
                                            Fast(x - h.x, timeDiff, punchThreshold))]
             t2 == IF V_isPunch(t, k)
                   THEN V_detectPunchCollision([t1 EXCEPT !.lastPunchTime = now],
                                               rayHit, chords, vnum, timeDiff, decay)
                   ELSE t1
         IN V_checkCollisions(IF x = NoHand \/ ~(timeDiff > 0) THEN t ELSE t2,
                              k + 1, rayHit, chords, decay)

\* the particle loop of updatePhysics from index i on: forEach with
\* splice(index, 1), so the particle after a removed one is not visited; at a
\* flash userData.velocity is undefined and the loop ends in a TypeError
RECURSIVE V_updateParticles(_, _)
V_updateParticles(parts, i) ==
    IF i > Len(parts) \/ parts[i].flash THEN parts
    ELSE LET p == Decay(parts[i]) IN
         IF p.life <= 0 THEN V_updateParticles(RemoveAt(parts, i), i + 1)
         ELSE V_updateParticles([parts EXCEPT ![i] = p], i + 1)

\* the particle loop from index i on reaches a flash
RECURSIVE V_particlesThrow(_, _)
V_particlesThrow(parts, i) ==
    IF i > Len(parts) THEN FALSE
    ELSE IF parts[i].flash THEN TRUE
    ELSE IF Decay(parts[i]).life <= 0 THEN V_particlesThrow(RemoveAt(parts, i), i + 1)
    ELSE V_particlesThrow(parts, i + 1)

\* updatePhysics: the target loop filters into a new array, so forEach visits
\* every target once
V_updatePhysics(t) ==
    [t EXCEPT !.objects = SelectSeq(AdvanceAll(@), LAMBDA o : ~(o.z > DespawnZ)),
              !.particles = Aged(V_updateParticles(@, 1))]

\* updateGameState after `await this.detectHands()`, then renderScene and the
\* next requestAnimationFrame; an exception in between is caught by gameLoop
V_afterDetect(t, rayHit, chords, decay) ==
    LET c == V_checkCollisions(t, 1, rayHit, chords, decay) IN
    V_requestFrame(IF V_particlesThrow(c.particles, 1) THEN V_updatePhysics(c)
                   ELSE updateUI(V_updatePhysics(c)))

\* an updateGameState whose spawnRate has no floor
V_updateGameState_nofloor(t, sp) ==
    LET t1 == [t EXCEPT !.timeLeft = @ - FrameDt]
        timeElapsed == RoundTime - t1.timeLeft
        t2 == [t1 EXCEPT !.gameSpeed = 100 + timeElapsed * 3,
                         !.spawnRate = 200 - timeElapsed * 3]
        t3 == IF sp = NoSpawn THEN t2
              ELSE [t2 EXCEPT !.objects = Append(@, NewObject(t2, sp)), !.nextId = @ + 1]
    IN IF t1.timeLeft <= 0 THEN V_requestFrame(V_endGame(t1))
       ELSE IF detector THEN [t3 EXCEPT !.awaiting = @ + 1]
       ELSE V_afterDetect(t3, 0, <<>>, 0)

\* updateGameState up to `await this.detectHands()`.  With a detector the call
\* is suspended in estimateHands; without one nothing but microtasks separate
\* the two halves and this.hands is still empty.
V_updateGameState(t, sp) ==
    LET t1 == [t EXCEPT !.timeLeft = @ - FrameDt]
        timeElapsed == RoundTime - t1.timeLeft
        t2 == [t1 EXCEPT !.gameSpeed = 100 + timeElapsed * 3,
                         !.spawnRate = Max(30, 200 - timeElapsed * 3)]
        t3 == IF sp = NoSpawn THEN t2
              ELSE [t2 EXCEPT !.objects = Append(@, NewObject(t2, sp)), !.nextId = @ + 1]
    IN IF t1.timeLeft <= 0 THEN V_requestFrame(V_endGame(t1))
       ELSE IF detector THEN [t3 EXCEPT !.awaiting = @ + 1]
       ELSE V_afterDetect(t3, 0, <<>>, 0)

V_gameLoop(t, sp) ==
    IF ~t.gameActive THEN [t EXCEPT !.gameLoopRunning = FALSE]
    ELSE V_updateGameState(t, sp)

\* a startGame that calls gameLoop() whether or not a loop is running
V_startGame_unguarded(t, sp) ==
    LET t1 == updateUI([t EXCEPT !.score = 0, !.timeLeft = RoundTime,
                                 !.gameActive = TRUE, !.gameSpeed = 100,
                                 !.spawnRate = 200, !.objects = <<>>,
                                 !.particles = <<>>, !.lastHit = "none"])
    IN IF ~initialized THEN [t EXCEPT !.startRefused = @ \/ initState = "failed"]
       ELSE V_gameLoop([t1 EXCEPT !.gameLoopRunning = TRUE], sp)

\* a startGame without the test of `initialized`
V_startGame_unchecked(t, sp) ==
    LET t1 == updateUI([t EXCEPT !.score = 0, !.timeLeft = RoundTime,
                                 !.gameActive = TRUE, !.gameSpeed = 100,
                                 !.spawnRate = 200, !.objects = <<>>,
                                 !.particles = <<>>, !.lastHit = "none"])
    IN IF t1.gameLoopRunning THEN t1
       ELSE V_gameLoop([t1 EXCEPT !.gameLoopRunning = TRUE], sp)

\* startGame: gameLoop() is called, and runs to its first await, before
\* startGame returns
V_startGame(t, sp) ==
    LET t1 == updateUI([t EXCEPT !.score = 0, !.timeLeft = RoundTime,
                                 !.gameActive = TRUE, !.gameSpeed = 100,
                                 !.spawnRate = 200, !.objects = <<>>,
                                 !.particles = <<>>, !.lastHit = "none"])
    IN IF ~initialized THEN [t EXCEPT !.startRefused = @ \/ initState = "failed"]
       ELSE IF t1.gameLoopRunning THEN t1
       ELSE V_gameLoop([t1 EXCEPT !.gameLoopRunning = TRUE], sp)

\* a simulatePunch that goes through the cooldown of the hand punches
V_simulatePunch_cooled(t, rayHit, chords, decay) ==
    IF ~t.gameActive \/ ~(now - t.lastPunchTime > punchCooldown) THEN t
    ELSE V_detectPunchCollision([t EXCEPT !.lastPunchTime = now],
                                rayHit, chords, DefaultVelocity, 1, decay)

V_simulatePunch(t, rayHit, chords, decay) ==
    IF ~t.gameActive THEN t
    ELSE V_detectPunchCollision(t, rayHit, chords, DefaultVelocity, 1, decay)

(* -------- velocity: the tasks -------- *)
\* the start and restart buttons, or a call of game.startGame()
V_OnStart(sc) ==
    \E sp \in SpawnInputs(sc) :
        /\ variant = "velocity"
        /\ Become(V_startGame(this, sp))

V_OnFrame(sc) ==
    \E sp \in SpawnInputs(sc) :
        /\ variant = "velocity"
        /\ rafOther > 0
        /\ Become(V_gameLoop([this EXCEPT !.rafOther = @ - 1], sp))

\* estimateHands settles: with a result, or with an exception detectHands logs
V_OnHands(sc) ==
    \E ok \in BOOLEAN, res \in HandResults(sc, sc.xs), rayHit \in 0..Len(objects),
       chords \in [1..Len(objects) -> ChordSet], decay \in sc.decays :
        /\ variant = "velocity"
        /\ awaiting > 0
        /\ Become(V_afterDetect([this EXCEPT !.awaiting = @ - 1,
                                             !.hands = IF ok THEN res ELSE @],
                                rayHit, chords, decay))

\* keydown (Space)
V_OnKey(sc) ==
    \E rayHit \in 0..Len(objects), chords \in [1..Len(objects) -> ChordSet],
       decay \in sc.decays :
        /\ variant = "velocity" /\ listening
        /\ gameActive
        /\ Become(V_simulatePunch(this, rayHit, chords, decay))

(* =============================== simple =============================== *)
S_endGame(t) ==
    [t EXCEPT !.gameActive = FALSE, !.objects = <<>>, !.particles = <<>>,
              !.lastHit = "none"]

S_requestFrame(t) == [t EXCEPT !.rafOther = @ + 1]

\* createParticles: 20 particles of life 1.0
S_createParticles(parts) ==
    parts \o [k \in 1..Min(20, BurstCap) |-> Particle(100, 0, FALSE)]

S_hitObject(t, i) ==
    updateUI(Resolve(t, i, Max(0, t.score + t.objects[i].points),
                     S_createParticles(t.particles)))

\* detectPunchCollision: the ray test only
S_detectPunchCollision(t, rayHit) ==
    IF rayHit \in 1..Len(t.objects) THEN S_hitObject(t, rayHit) ELSE t

\* checkCollisions from the k-th hand on; a hand is given by the distance of
\* its index fingertip from its wrist
RECURSIVE S_checkCollisions(_, _, _)
S_checkCollisions(t, k, rayHit) ==
    IF k > Len(t.hands) THEN t
    ELSE LET distance == t.hands[k]
             punch == /\ distance # NoHand
                      /\ distance > ExtendedDistance
                      /\ now - t.lastPunchTime > punchCooldown
         IN S_checkCollisions(
                IF punch THEN S_detectPunchCollision([t EXCEPT !.lastPunchTime = now], rayHit)
                ELSE t, k + 1, rayHit)

\* the loops of updatePhysics from index i on: forEach with splice(index, 1),
\* so the element after a removed one is not visited in this frame
RECURSIVE S_updateObjects(_, _)
S_updateObjects(objs, i) ==
    IF i > Len(objs) THEN objs
    ELSE LET o == Advance(objs[i]) IN
         IF o.z > DespawnZ THEN S_updateObjects(RemoveAt(objs, i), i + 1)
         ELSE S_updateObjects([objs EXCEPT ![i] = o], i + 1)

RECURSIVE S_updateParticles(_, _)
S_updateParticles(parts, i) ==
    IF i > Len(parts) THEN parts
    ELSE LET p == Decay(parts[i]) IN
         IF p.life <= 0 THEN S_updateParticles(RemoveAt(parts, i), i + 1)
         ELSE S_updateParticles([parts EXCEPT ![i] = p], i + 1)

S_updatePhysics(t) ==
    [t EXCEPT !.objects = S_updateObjects(@, 1),
              !.particles = Aged(S_updateParticles(@, 1))]

\* updateGameState after `await this.detectHands()`, then renderScene and the
\* next requestAnimationFrame
S_afterDetect(t, rayHit) ==
    S_requestFrame(updateUI(S_updatePhysics(S_checkCollisions(t, 1, rayHit))))

\* updateGameState; with hand tracking ready it is suspended in estimateHands
S_updateGameState(t, sp) ==
    LET t1 == [t EXCEPT !.timeLeft = @ - FrameDt]
        t2 == [t1 EXCEPT !.gameSpeed = 100 + (RoundTime - t1.timeLeft) * 2,
                         !.spawnRate = Max(50, 200 - (RoundTime - t1.timeLeft) * 2)]
        t3 == IF sp = NoSpawn THEN t2
              ELSE [t2 EXCEPT !.objects = Append(@, NewObject(t2, sp)), !.nextId = @ + 1]
    IN IF t1.timeLeft <= 0 THEN S_requestFrame(S_endGame(t1))
       ELSE IF detector THEN [t3 EXCEPT !.awaiting = @ + 1]
       ELSE S_requestFrame(updateUI(S_updatePhysics(t3)))

S_gameLoop(t, sp) == IF ~t.gameActive THEN t ELSE S_updateGameState(t, sp)

\* startGame: every call starts a gameLoop() of its own
S_startGame(t, sp) ==
    S_gameLoop(updateUI([t EXCEPT !.score = 0, !.timeLeft = RoundTime,
                                  !.gameActive = TRUE, !.gameSpeed = 100,
                                  !.spawnRate = 200, !.objects = <<>>,
                                  !.particles = <<>>, !.lastHit = "none"]), sp)

(* -------- simple: the tasks -------- *)
S_OnStart(sc) ==
    \E sp \in SpawnInputs(sc) :
        /\ variant = "simple" /\ listening
        /\ rafOther + awaiting < sc.loops
        /\ Become(S_startGame(this, sp))

S_OnFrame(sc) ==
    \E sp \in SpawnInputs(sc) :
        /\ variant = "simple"
        /\ rafOther > 0
        /\ Become(S_gameLoop([this EXCEPT !.rafOther = @ - 1], sp))

\* estimateHands settles with a result, or this.hands stays what it was (the
\* call threw, or the video had no frame)
S_OnHands(sc) ==
    \E ok \in BOOLEAN, res \in HandResults(sc, ReachSet), rayHit \in 0..Len(objects) :
        /\ variant = "simple"
        /\ awaiting > 0
        /\ Become(S_afterDetect([this EXCEPT !.awaiting = @ - 1,
                                             !.hands = IF ok THEN res ELSE @], rayHit))

\* keydown (Space) and click
S_OnPress ==
    \E rayHit \in 0..Len(objects) :
        /\ variant = "simple" /\ listening
        /\ gameActive
        /\ Become(S_detectPunchCollision(this, rayHit))

(* ------------------------- init and the clock -------------------------- *)
\* init(): camera, scene, listeners; hand tracking goes on loading.
\* In the velocity variant a refused camera rejects init before `initialized`.
OnLoad ==
    /\ initState = "new"
    /\ \E cameraOk \in BOOLEAN :
          initState' = IF variant = "velocity" /\ ~cameraOk THEN "failed" ELSE "loading"
    /\ UNCHANGED <<variant, now, score, timeLeft, gameActive, gameSpeed,
                   spawnRate, objects, particles, nextId, lastPunchTime,
                   handLastSample, handVel, handHistory, hands, handTimer, rafCur,
                   rafOther, awaiting, gameLoopRunning, hitCount,
                   lastHit, slowOnly, startRefused, uiScore, uiTime, objLeak,
                   partLeak, framesPerRound, clock,
                   ticks>>

\* createDetector settles; the pooled variant then arms the hand interval,
\* prepares its pools and calls updateUI
OnDetector ==
    /\ initState = "loading"
    /\ \E ok \in BOOLEAN :
          /\ initState' = IF ok THEN "ready" ELSE "nohands"
          /\ handTimer' = (variant = "pooled" /\ ok)
    /\ uiScore' = IF variant = "pooled" THEN updateUI(this).uiScore ELSE uiScore
    /\ uiTime' = IF variant = "pooled" THEN updateUI(this).uiTime ELSE uiTime
    /\ UNCHANGED <<variant, now, score, timeLeft, gameActive, gameSpeed,
                   spawnRate, objects, particles, nextId, lastPunchTime,
                   handLastSample, handVel, handHistory, hands, rafCur,
                   rafOther, awaiting, gameLoopRunning, hitCount,
                   lastHit, slowOnly, startRefused, objLeak,
                   partLeak, framesPerRound, clock,
                   ticks>>

\* time passes between two tasks
Elapse(sc) ==
    /\ \E dt \in ElapseSteps(sc) :
          /\ now + dt <= MaxNow(sc)
          /\ now' = now + dt
    /\ lastHit' = "none"
    /\ UNCHANGED <<variant, initState, score, timeLeft, gameActive, gameSpeed,
                   spawnRate, objects, particles, nextId, lastPunchTime,
                   handLastSample, handVel, handHistory, hands, handTimer, rafCur,
                   rafOther, awaiting, gameLoopRunning, hitCount,
                   slowOnly, startRefused, uiScore, uiTime, objLeak, partLeak,
                   framesPerRound, clock,
                   ticks>>

\* the state after construction: one of the variants vs, in a run of fpr frames
\* to the round
InitWith(vs, fpr) ==
    /\ variant \in vs
    /\ initState = "new"
    /\ now = 0
    /\ score = 0
    /\ timeLeft = RoundTime
    /\ gameActive = FALSE
    /\ gameSpeed = 100
    /\ spawnRate = IF variant = "pooled" THEN 120 ELSE 200
    /\ objects = <<>>
    /\ particles = <<>>
    /\ nextId = 1
    /\ lastPunchTime = 0
    /\ handLastSample = NoSample
    /\ handVel = 0
    /\ handHistory = [left |-> [x |-> 0, time |-> 0], right |-> [x |-> 0, time |-> 0]]
    /\ hands = <<>>
    /\ handTimer = FALSE
    /\ rafCur = FALSE
    /\ rafOther = 0
    /\ awaiting = 0
    /\ gameLoopRunning = FALSE
    /\ hitCount = [k \in 1..Max(MaxSpawns, TimingSpawns) |-> 0]
    /\ lastHit = "none"
    /\ slowOnly = TRUE
    /\ startRefused = FALSE
    /\ uiScore = 0
    /\ uiTime = RoundTime
    /\ objLeak = 0
    /\ partLeak = 0
    /\ framesPerRound = fpr
    /\ clock = Sixty
    /\ ticks = 0

Init == InitWith(Variants, FramesPerRound)

\* the tasks of the page under the scope sc
Step(sc) ==
    \/ OnLoad
    \/ OnDetector
    \/ Elapse(sc)
    \/ P_OnStart(sc)
    \/ P_OnRestart(sc)
    \/ P_OnFrame(sc)
    \/ P_OnInterval
    \/ P_OnHands(sc)
    \/ P_OnPress(sc)
    \/ V_OnStart(sc)
    \/ V_OnFrame(sc)
    \/ V_OnHands(sc)
    \/ V_OnKey(sc)
    \/ S_OnStart(sc)
    \/ S_OnFrame(sc)
    \/ S_OnHands(sc)
    \/ S_OnPress

Next == Step(PlayScope)
NextTiming == Step(TimingScope)

Spec == Init /\ [][Next]_vars
SpecTiming == Init /\ [][NextTiming]_vars

(* ---------------------------- a long round ----------------------------- *)
\* The difficulty ramp reaches its floor after 56 s of a round and a particle
\* lives 34 frames: the velocity and the simple variant are also explored in
\* rounds of one frame every LongDt seconds, with the keyboard and the mouse as
\* the only hands.
LongScope ==
    [types |-> {"normal"}, spawns |-> LongSpawns, loops |-> 1,
     hands |-> 0, xs |-> {}, steps |-> {50}, cooldowns |-> 0,
     lives |-> {90}, decays |-> {2}, dists |-> {80}]

InitLong == InitWith({"velocity", "simple"}, RoundTime \div LongDt)

NextLong ==
    \/ OnLoad
    \/ OnDetector
    \/ V_OnStart(LongScope)
    \/ V_OnFrame(LongScope)
    \/ V_OnHands(LongScope)
    \/ V_OnKey(LongScope)
    \/ S_OnStart(LongScope)
    \/ S_OnFrame(LongScope)
    \/ S_OnHands(LongScope)
    \/ S_OnPress

SpecLong == InitLong /\ [][NextLong]_vars

(* ----------------------- the pools at their limits ---------------------- *)
\* The targets of the code cross the play volume in 100 to 200 frames, and a
\* frame spawns at most one: on a slow display (every frame later than
\* spawnRate after the last) the active list fills to maxObjects, and a press
\* per frame fills the particle pool.  The frames above retire a target in
\* three, so this specification starts in such a round: the pooled variant
\* with all but one mesh of each pool active.  Every press is within reach of
\* every target.
PoolScope ==
    [types |-> {"normal"}, spawns |-> maxObjects - 1 + PoolSpawns, loops |-> 1,
     hands |-> 1, xs |-> PlayXs, steps |-> {50}, cooldowns |-> 1,
     lives |-> {90}, decays |-> {2}, dists |-> {80}]

InitPool ==
    /\ variant = "pooled"
    /\ initState = "ready"
    /\ now = 0
    /\ score = 0
    /\ timeLeft = RoundTime - RoundTime \div FramesPerRound
    /\ gameActive = TRUE
    /\ gameSpeed = 100
    /\ spawnRate = 120
    /\ objects = [k \in 1..(maxObjects - 1) |->
                     [id |-> k, type |-> "normal", points |-> TypePoints("normal"),
                      z |-> -6]]
    /\ particles = [k \in 1..(maxParticles - 1) |-> Particle(90, 0, FALSE)]
    /\ nextId = maxObjects
    /\ lastPunchTime = 0
    /\ handLastSample = NoSample
    /\ handVel = 0
    /\ handHistory = [left |-> [x |-> 0, time |-> 0], right |-> [x |-> 0, time |-> 0]]
    /\ hands = <<>>
    /\ handTimer = TRUE
    /\ rafCur = TRUE
    /\ rafOther = 0
    /\ awaiting = 0
    /\ gameLoopRunning = FALSE
    /\ hitCount = [k \in 1..(maxObjects - 1 + PoolSpawns) |-> 0]
    /\ lastHit = "none"
    /\ slowOnly = TRUE
    /\ startRefused = FALSE
    /\ uiScore = 0
    /\ uiTime = timeLeft
    /\ objLeak = 0
    /\ partLeak = 0
    /\ framesPerRound = FramesPerRound
    /\ clock = Sixty
    /\ ticks = 0

NextPool ==
    \/ Elapse(PoolScope)
    \/ P_OnStart(PoolScope)
    \/ P_OnRestart(PoolScope)
    \/ P_OnFrame(PoolScope)
    \/ P_OnInterval
    \/ P_OnHands(PoolScope)
    \/ P_OnPress(PoolScope)

SpecPool == InitPool /\ [][NextPool]_vars

(* ------------------- the timer at the resolution of the code ---------------- *)
\* The frames above take a round in a few large steps of timeLeft.  This
\* specification follows the timer alone, tick by tick and in the arithmetic of
\* the code, through the 3600 and more ticks of a round; what else a tick does
\* is in P_updateGameState, V_updateGameState and S_updateGameState.

\* startGame: this.timeLeft = 60; this.gameActive = true
ClockStart ==
    /\ listening
    /\ variant = "velocity" => initialized
    /\ gameActive' = TRUE
    /\ clock' = Sixty
    /\ ticks' = 0
    /\ UNCHANGED <<variant, initState, now, score, timeLeft, gameSpeed,
                   spawnRate, objects, particles, nextId, lastPunchTime,
                   handLastSample, handVel, handHistory, hands, handTimer, rafCur,
                   rafOther, awaiting, gameLoopRunning, hitCount,
                   lastHit, slowOnly, startRefused, uiScore, uiTime, objLeak,
                   partLeak, framesPerRound>>

\* a frame callback of the round, no tick throwing: this.timeLeft -= 1/60, and
\* endGame() if (this.timeLeft <= 0)
ClockFrame ==
    /\ gameActive
    /\ ticks' = ticks + 1
    /\ clock' = IF LimbLeq(clock.mag, FrameTime)
                THEN [neg |-> clock.mag # FrameTime,
                      mag |-> RoundDouble(LimbSub(FrameTime, clock.mag, 1, 0))]
                ELSE [neg |-> FALSE,
                      mag |-> RoundDouble(LimbSub(clock.mag, FrameTime, 1, 0))]
    /\ gameActive' = ~LimbLeq(clock.mag, FrameTime)
    /\ UNCHANGED <<variant, initState, now, score, timeLeft, gameSpeed,
                   spawnRate, objects, particles, nextId, lastPunchTime,
                   handLastSample, handVel, handHistory, hands, handTimer, rafCur,
                   rafOther, awaiting, gameLoopRunning, hitCount,
                   lastHit, slowOnly, startRefused, uiScore, uiTime, objLeak,
                   partLeak, framesPerRound>>

NextClock ==
    \/ OnLoad
    \/ OnDetector
    \/ ClockStart
    \/ ClockFrame

SpecClock == Init /\ [][NextClock]_vars

(* ============================== properties ============================== *)
Ids == 1..Max(MaxSpawns, TimingSpawns)

\* the point values the README lists: green, orange, red, purple
ListedValue(ty) ==
    CASE ty = "normal" -> 10
      [] ty = "bonus" -> 50
      [] ty = "danger" -> -20
      [] ty = "explosive" -> 30

\* this step resolves target id as hit
HitStep(id) == hitCount'[id] = hitCount[id] + 1
\* the active target with identity id
TargetOf(id) == CHOOSE o \in Range(objects) : o.id = id
IsActive(id) == \E o \in Range(objects) : o.id = id

\* the steps that are a successful call of startGame or restartGame
StartGameStep ==
    \/ P_OnStart(PlayScope)
    \/ P_OnRestart(PlayScope)
    \/ initialized /\ V_OnStart(PlayScope)
    \/ S_OnStart(PlayScope)

\* while a round is active its frame loop is alive: a frame callback is
\* pending, or the loop is suspended in an await
LoopAlive ==
    IF variant = "pooled" THEN RafCount > 0 ELSE rafOther + awaiting > 0

(* C1: in every variant the score is an integer >= 0 in every reachable     *)
(* state, whatever starts, ticks, hand samples, manual punches and hits,    *)
(* negative-value hits included, came before.                               *)
C1_ScoreNonNegative == score \in Nat

\* a red target was hit at a score below 20 and the score stopped at 0
C1_ClampedAtZero ==
    /\ variant = "pooled"
    /\ lastHit = "negative"
    /\ score = 0

(* C2: one punch event resolves at most one target.  Every task holds at    *)
(* most one call of detectPunchCollision (a second hand of the same result  *)
(* is inside the cooldown), so: no step resolves two targets, whether by    *)
(* the ray or pixel test or by the distance fallback.                       *)
C2_OneTargetPerPunch ==
    [][\A a, b \in Ids : HitStep(a) /\ HitStep(b) => a = b]_vars

\* a punch resolved the later of two active targets and left the earlier one
C2_OneOfTwoResolved ==
    /\ hitCount[2] = 1
    /\ hitCount[1] = 0
    /\ IsActive(1)

(* C3: a target resolved as hit is scored at most once: it has left the     *)
(* active list, and no punch, in the same tick or later, resolves it again. *)
C3_HitAtMostOnce ==
    \A id \in Ids : hitCount[id] <= 1 /\ (hitCount[id] = 1 => ~IsActive(id))

\* after the hit of one target a later punch resolved another one
C3_TwoTargetsHit == \A id \in Ids : hitCount[id] = 1

(* C4: two accepted hand punches are more than punchCooldown ms apart       *)
(* (350 / 200 / 300), whichever hand made them: lastPunchTime only changes  *)
(* to the present time, and only when more than punchCooldown ms have       *)
(* passed since its old value; a suppressed sample leaves it alone.         *)
C4_CooldownBetweenPunches ==
    [][lastPunchTime' # lastPunchTime =>
          /\ lastPunchTime' = now
          /\ now - lastPunchTime > punchCooldown]_vars

\* pooled: a sample fast enough to punch arrived exactly punchCooldown ms
\* after an accepted punch and was suppressed
C4_SuppressedInCooldown ==
    /\ variant = "pooled"
    /\ handLastSample.t = now
    /\ Abs(handVel) > punchVelocityThreshold * 1000
    /\ lastPunchTime > 0
    /\ lastPunchTime < now
    /\ now - lastPunchTime <= punchCooldown

(* C5 (as stated): hand samples whose speed between consecutive samples     *)
(* stays below the punch velocity threshold, a hand at rest included, never *)
(* produce a punch event.                                                   *)
C5_SlowHandNeverPunches == slowOnly => lastPunchTime = 0

C7_ComboMultipliesPoints ==
    [][\A id \in Ids :
          (HitStep(id) /\ lastHit = "positive" /\ TargetOf(id).points > 0) =>
              score' - score >= 2 * ListedValue(TargetOf(id).type)]_vars

(* C8 (as stated): immediately after a successful startGame, first start or *)
(* restart, score = 0, timeLeft = 60, gameActive = true and the target and  *)
(* particle lists are empty.                                                *)
C8_StartGameResetsRound ==
    [][StartGameStep =>
          /\ score' = 0
          /\ timeLeft' = RoundTime
          /\ gameActive'
          /\ objects' = <<>>
          /\ particles' = <<>>]_vars

(* C9: from endGame to the next startGame gameActive is false, the target   *)
(* and particle lists are empty, and no step (a pending frame callback, a   *)
(* hand callback in flight or periodic, a key or click) changes the score,  *)
(* the targets or the particles.                                            *)
C9_NothingMovesBetweenRounds ==
    [][/\ ~gameActive' => objects' = <<>> /\ particles' = <<>>
       /\ (~gameActive /\ ~gameActive') => UNCHANGED <<score, objects, particles>>]_vars

\* a round has run out, with a frame callback pending and a hand callback in
\* flight
C9_RoundOverWithPendingCallbacks ==
    /\ ~gameActive
    /\ timeLeft <= 0
    /\ RafCount > 0
    /\ awaiting > 0

(* C10 (as stated): an exception in one tick's update never stops the game  *)
(* loop: while the round is active the next frame callback is scheduled.    *)
C10_LoopSurvivesException == gameActive => LoopAlive

(* C11: in every variant a failure of the hand-tracking initialisation (the
   detector cannot be created, or the camera is refused) is not fatal: a
   startGame called after init() has ended is never turned away, it activates
   a round. *)
C11_PlayableAfterInitFailure == ~startRefused

\* a result of estimateHands in which the first n hands lack a keypoint
Incomplete(n) == [k \in 1..n |-> NoHand]

(* C12: a hand sample that lacks a required keypoint produces no punch and
   leaves the hand-motion state (last sample, hand history, smoothed
   velocity), lastPunchTime, the score and the targets as they were: in every
   reachable state, processing such a sample yields the state unchanged, and
   in the velocity variant an incomplete first hand leaves the history of its
   slot unchanged whatever the second hand is. *)
C12_IncompleteSampleDropped ==
    /\ variant = "pooled" =>
          \A dists \in [1..Len(objects) -> DistSet], lives \in P_Bursts(TimingScope) :
              P_handLoopTick(this, NoHand, dists, lives) = this
    /\ variant = "velocity" =>
          \A res \in HandResults(TimingScope, HandXs), rayHit \in 0..Len(objects),
             chords \in [1..Len(objects) -> ChordSet] :
              LET t == [this EXCEPT !.hands = res]
                  r == V_checkCollisions(t, 1, rayHit, chords, DefaultDecay)
              IN /\ res = Incomplete(Len(res)) => r = t
                 /\ (res # <<>> /\ res[1] = NoHand) =>
                        r.handHistory.left = handHistory.left
    /\ variant = "simple" =>
          \A n \in 0..MaxHands, rayHit \in 0..Len(objects) :
              LET t == [this EXCEPT !.hands = Incomplete(n)]
              IN S_checkCollisions(t, 1, rayHit) = t
\* a frame of the velocity variant has processed a result of incomplete hands
\* after an earlier sample was recorded
C12_IncompleteAfterSample ==
    /\ variant = "velocity" /\ gameActive
    /\ hands # <<>> /\ hands = Incomplete(Len(hands))
    /\ handHistory.left.time > 0

(* C13: in the pooled variant the active targets never exceed maxObjects
   (18) and the active particles never exceed maxParticles (120). *)
C13_ListsWithinPools ==
    variant = "pooled" =>
        Len(objects) <= maxObjects /\ Len(particles) <= maxParticles
\* both lists are full
C13_BothListsFull == Len(objects) = maxObjects /\ Len(particles) = maxParticles

(* C14: in the pooled variant a spawn requested while the object pool has no
   free mesh, and a burst requested while the particle pool has no free mesh,
   change nothing: the active lists and the pools stay as they are, and a hit
   in that state still removes its target and scores, with no particle
   added. *)
C14_ExhaustedPoolNoOp ==
    variant = "pooled" =>
        /\ P_freeObjects(this) <= 0 =>
              \A ty \in Types : P_spawnObject(this, ty) = this
        /\ P_freeParticles(this, particles) <= 0 =>
              \A lives \in P_Bursts(PoolScope) :
                  /\ P_spawnParticles(this, particles, lives) = particles
                  /\ \A i \in 1..Len(objects) :
                        LET r == P_hitObject(this, i, lives) IN
                        /\ r.particles = particles
                        /\ r.partLeak = partLeak /\ r.objLeak = objLeak
\* a round in which every mesh of both pools is visible while the active list
\* has room for a spawn and holds a target to hit
C14_BothPoolsExhausted ==
    /\ gameActive /\ P_freeObjects(this) = 0 /\ P_freeParticles(this, particles) = 0
    /\ Len(objects) < maxObjects /\ objects # <<>>

\* ceil(1.0 / 0.03): the updates after which a life of 1.0 is used up
BurstUpdates == (100 + DefaultDecay - 1) \div DefaultDecay

(* C15: in the simple variant every particle of a hit burst is removed after
   exactly 34 physics updates, whatever the size of the burst and whatever
   other particles die in the same update: no particle that has been through
   34 updates is still in the list. *)
C15_BurstGoneAfter34Updates ==
    variant = "simple" =>
        \A k \in 1..Len(particles) : particles[k].age < BurstUpdates

\* the ramp of the difficulty, in hundredths per second of the round, and the
\* floor of spawnRate, in hundredths of a second
RampRate == IF variant = "velocity" THEN 3 ELSE 2
RampFloor == IF variant = "velocity" THEN 30 ELSE 50
\* seconds of the round that have elapsed
Elapsed == RoundTime - timeLeft

(* C16: in the velocity and the simple variant, in every state of a round,
   spawnRate = max(floor, 2.0 - elapsed * rate) and gameSpeed = 1.0 + elapsed
   * rate with elapsed = 60 - timeLeft (floor 0.3 and rate 0.03 in the
   velocity variant, 0.5 and 0.02 in the simple one); from one tick of a round
   to the next spawnRate does not increase and gameSpeed does not decrease. *)
C16_DifficultyRamp ==
    [][(variant \in {"velocity", "simple"} /\ gameActive') =>
         /\ spawnRate' = Max(RampFloor, 200 - Elapsed' * RampRate)
         /\ gameSpeed' = 100 + Elapsed' * RampRate
         /\ spawnRate' >= RampFloor
         /\ (gameActive /\ timeLeft' <= timeLeft) =>
               (spawnRate' <= spawnRate /\ gameSpeed' >= gameSpeed)]_vars
\* a tick of the velocity variant late in the round: the ramp is below the floor
C16_AtTheFloor ==
    /\ variant = "velocity" /\ gameActive
    /\ 200 - Elapsed * RampRate < RampFloor
    /\ spawnRate = RampFloor

(* C17: in the pooled variant the game gets harder as the round goes on:
   once a tick of the round has run, spawnRate is below the 1.2 s and
   gameSpeed above the 1.0 the round began with. *)
C17_PooledGetsHarder ==
    (variant = "pooled" /\ gameActive /\ Elapsed > 0) =>
        (spawnRate < 120 /\ gameSpeed > 100)

(* C18: in every variant, after every completed update tick, after every hit
   and after the round has ended, the page shows the score and the whole
   seconds left, clamped at 0: the display reads 0 once the round is over. *)
C18_DisplayShowsState ==
    awaiting = 0 => (uiScore = score /\ uiTime = Max(0, JSCeil(timeLeft, 1)))

\* punch speeds vnum/vden px/s: below, at and above the threshold, at and
\* above twice the threshold
SpeedNums == {0, 10, 25, 26, 40, 50, 75, 76, 400}
SpeedDens == {1, 3}

(* C19: in the velocity variant a hit at speed v awards
   round(pointValue * min(2.0, v / punchThreshold)) points: exactly pointValue
   at v = punchThreshold, never more than twice pointValue in magnitude; and
   the score becomes max(0, score + points).  v is the velocity hitObject is
   called with: the hand's speed for a hit on the ray, 50 for a keyboard punch
   and for a hit by distance. *)
C19_VelocityScaledPoints ==
    variant = "velocity" =>
        \A i \in 1..Len(objects), vnum \in SpeedNums, vden \in SpeedDens :
            LET value == objects[i].points
                pts == V_points(objects[i], vnum, vden)
                den == punchThreshold * vden
            IN /\ IF vnum >= 2 * den THEN pts = 2 * value
                  ELSE /\ 2 * den * pts - den <= 2 * value * vnum
                       /\ 2 * value * vnum < 2 * den * pts + den
               /\ vnum = den => pts = value
               /\ Abs(pts) <= 2 * Abs(value)
               /\ V_hitObject(this, i, vnum, vden, DefaultDecay).score
                     = Max(0, score + pts)
\* one hit so far, on a bonus target, at the keyboard's speed of twice the
\* threshold: 100 points
C19_DoubledHit ==
    /\ variant = "velocity" /\ lastHit = "positive" /\ score = 100
    /\ Cardinality({id \in Ids : hitCount[id] > 0}) = 1

(* C20: in the pooled and the velocity variant the first hand sample of a
   hand slot only records the position of the hand and never produces a punch,
   wherever the hand is and whenever the sample arrives. *)
C20_FirstSampleOnlyRecords ==
    [][/\ (variant = "pooled" /\ handLastSample = NoSample
                              /\ handLastSample' # NoSample)
            => lastPunchTime' = lastPunchTime
       /\ (variant = "velocity" /\ handHistory.left.time = 0
                                /\ handHistory.right.time = 0
                                /\ handHistory' # handHistory)
            => lastPunchTime' = lastPunchTime]_vars

\* the state in which checkCollisions reaches the second (right) hand of the
\* result <<other, own>>: the first hand has been processed
AfterOtherHand(other, own) ==
    [V_checkCollisions([this EXCEPT !.hands = <<other>>], 1, 0,
                       [i \in 1..Len(objects) |-> 20], DefaultDecay)
        EXCEPT !.hands = <<other, own>>]

\* C21: in the velocity variant, whether a hand's sample is accepted as a punch
\* depends only on that hand's own samples: from the same history, two results
\* of estimateHands that differ only in the other hand's sample accept the same
\* punches for this hand.
C21_HandsIndependent ==
    (variant = "velocity" /\ awaiting > 0) =>
        \A own \in HandXs : \A a, b \in HandXs \cup {NoHand} :
            V_isPunch(AfterOtherHand(a, own), 2) = V_isPunch(AfterOtherHand(b, own), 2)

\* pixel distances inside the threshold, a nearer and a farther one
NearDists == {40, 80}

\* the targets a call of detectPunchCollision with these distances resolves
P_resolved(dists, lives) ==
    LET after == P_detectPunchCollision(this, dists, lives)
    IN {i \in 1..Len(objects) :
            \A j \in 1..Len(after.objects) : after.objects[j].id # objects[i].id}

\* C22: in the pooled variant, when several active targets project within
\* punchDistanceThreshold of the punch point, the target resolved as hit is the
\* one with the smallest pixel distance to the punch point.
C22_ClosestTargetResolved ==
    (variant = "pooled" /\ gameActive) =>
        \A dists \in [1..Len(objects) -> NearDists], lives \in P_Bursts(PlayScope) :
            \A i \in P_resolved(dists, lives) :
                \A j \in 1..Len(objects) : dists[i] <= dists[j]

\* C23: in the pooled variant's screen-space resolver a target still at its
\* spawn depth (z <= -6, the camera at z = 5) is never resolved as hit, even
\* when it projects within the pixel threshold of the punch.
C23_FarTargetNeverResolved ==
    [][variant = "pooled" =>
          \A id \in DOMAIN hitCount : HitStep(id) => TargetOf(id).z > SpawnZ]_vars

\* the updates that use up the life of a particle at the slowest decay of the
\* three variants: 1.0 at 0.02 per update (velocity, createExplosionEffect)
ParticleUpdates == 100 \div 2

\* C24: in every variant, every particle created by a hit, the flash particle
\* of the velocity variant included, is removed from the active particle list
\* after finitely many ticks while the round continues: every update lowers
\* its life, so no particle in the list has been through more updates than
\* use up a life.
C24_ParticlesDecayAway ==
    \A k \in 1..Len(particles) : particles[k].age < ParticleUpdates

\* updatePhysics of the variant
updatePhysics(t) ==
    CASE variant = "pooled" -> P_updatePhysics(t)
      [] variant = "velocity" -> V_updatePhysics(t)
      [] variant = "simple" -> S_updatePhysics(t)

\* C25: in every variant a physics update advances every target that is
\* active at its start by its velocity exactly once, ticks in which another
\* target is retired included: a target that stays in the list is in it at
\* its old position plus one velocity.
C25_EveryTargetAdvancedOnce ==
    \A k \in 1..Len(objects) :
        \/ Advance(objects[k]).z > DespawnZ
        \/ Advance(objects[k]) \in Range(updatePhysics(this).objects)

\* the ticks of a round of RoundTime seconds at 1/60 s per tick
TicksPerRound == RoundTime * 60

\* C26: in every variant, once a round has been started, and as long as frame
\* callbacks keep firing and no tick throws, timeLeft decreases by 1/60 on
\* every tick and the round ends, gameActive false, after at most 3600 ticks:
\* a round that has run 3600 ticks is over.
C26_RoundOverAfter3600Ticks == ticks >= TicksPerRound => ~gameActive

\* C27: in every variant the update tick never waits for hand-pose inference:
\* it runs from the timer decrement to the UI refresh without a suspension
\* point, so no key, click or start/restart handler runs in the middle of a
\* tick.  In the velocity and the simple variant `awaiting` counts the ticks
\* suspended in estimateHands: while one is, a step that does not resume it
\* leaves the round as it is.
C27_NoHandlerInsideTick ==
    [][(variant # "pooled" /\ awaiting > 0 /\ awaiting' >= awaiting) =>
          UNCHANGED <<score, timeLeft, gameActive, objects, particles>>]_vars

\* C28: the score, the active target list and the active particle list are
\* modified only by steps of the per-frame update tick (and by round start and
\* end); the asynchronous hand-sampling callback writes only the hand-motion
\* state.  In the pooled variant that callback is handLoopTick, and `awaiting`
\* counts its calls suspended in estimateHands: the step that resumes one
\* leaves the score and the two lists as they are.
C28_HandCallbackWritesHandStateOnly ==
    [][(variant = "pooled" /\ awaiting' < awaiting) =>
          UNCHANGED <<score, objects, particles>>]_vars

\* C29: in the pooled variant, when a round ends, the hand-sampling interval
\* is cleared and, once endGame and the enclosing tick have finished, no
\* frame callback of the ended round remains pending: the step that takes
\* gameActive from true to false leaves no interval armed and no frame
\* callback requested.
C29_NothingPendingAfterRoundEnd ==
    [][(variant = "pooled" /\ gameActive /\ ~gameActive') =>
          (~handTimer' /\ ~rafCur' /\ rafOther' = 0)]_vars

\* C30: in the pooled variant, whenever a round is active and the hand
\* detector was created, the periodic hand-sampling timer is armed, in the
\* second and every later round as in the first.
C30_HandTimerArmedInEveryRound ==
    (variant = "pooled" /\ gameActive /\ detector) => handTimer

\* C31: in the velocity variant, for any interleaving of startGame and
\* restartGame calls, frame callbacks and timer expiry, at most one game-loop
\* chain is live at any time (a pending frame callback, or a tick suspended in
\* its await), so no step takes more than one tick's 1/60 s off timeLeft.
C31_OneLoopChain ==
    variant = "velocity" => rafOther + awaiting <= 1
\* a round restarted while the frame callback of the running loop is pending:
\* startGame has found gameLoopRunning set and has run no tick of its own
C31_RestartWithCallbackPending ==
    /\ variant = "velocity" /\ gameActive /\ gameLoopRunning
    /\ timeLeft = RoundTime /\ rafOther = 1 /\ nextId > 1

\* C32: in the simple variant, for any interleaving of startGame and
\* restartGame calls, frame callbacks and timer expiry, at most one game-loop
\* chain is live at any time, so the tick runs at most once per display frame.
C32_OneSimpleLoopChain ==
    variant = "simple" => rafOther + awaiting <= 1

\* C33: in the pooled variant, after any sequence of init, startGame,
\* restartGame, ticks, punches and round ends, the pool meshes marked visible
\* are exactly the entries of the active lists, for targets and for particles:
\* no visible mesh is outside its list, and a free object mesh exists whenever
\* the pool is built and objects.length < maxObjects.
C33_VisibleMeshesAreTheActiveOnes ==
    variant = "pooled" =>
        /\ objLeak = 0 /\ partLeak = 0
        /\ (poolsReady /\ Len(objects) < maxObjects) => P_freeObjects(this) > 0

\* the manual punches of the variant on the state t: every Space key, click,
\* simulatePunch or simulatePunchAtPosition the scope allows, as the set of
\* the states they lead to
manualPunches(t) ==
    CASE variant = "pooled" ->
           {P_detectPunchCollision(t, dists, lives) :
               dists \in [1..Len(t.objects) -> PlayScope.dists],
               lives \in P_Bursts(PlayScope)}
      [] variant = "velocity" ->
           {V_simulatePunch(t, rayHit, chords, decay) :
               rayHit \in 0..Len(t.objects),
               chords \in [1..Len(t.objects) -> ChordSet],
               decay \in PlayScope.decays}
      [] variant = "simple" ->
           {S_detectPunchCollision(t, rayHit) : rayHit \in 0..Len(t.objects)}

\* C34: in every variant a manual punch neither reads nor writes
\* lastPunchTime: whatever lastPunchTime holds (the value it has, none, or this
\* very instant), the punch leads to the same states, with lastPunchTime as it
\* was; so it is resolved inside the cooldown of a hand punch and does not
\* delay the next one.
C34_ManualPunchIgnoresCooldown ==
    gameActive =>
        \A x \in {lastPunchTime, 0, now} :
            manualPunches([this EXCEPT !.lastPunchTime = x])
                = {[r EXCEPT !.lastPunchTime = x] : r \in manualPunches(this)}
\* a manual punch has just resolved a target, inside the cooldown of a hand
\* punch accepted earlier
C34_ManualHitInsideCooldown ==
    /\ lastHit # "none"
    /\ 0 < lastPunchTime /\ lastPunchTime < now
    /\ now - lastPunchTime <= punchCooldown

\* C35: in the velocity variant a startGame call made before init() has set
\* `initialized`, or after init() failed, is rejected: the call leaves
\* gameActive false and the score, timeLeft and the two lists as they are, and
\* starts no game loop; so until `initialized` is set the game is in the
\* state its constructor left.
C35_StartRejectedBeforeInit ==
    (variant = "velocity" /\ ~initialized) =>
        /\ \A sp \in SpawnInputs(PlayScope) :
              V_startGame(this, sp)
                  = [this EXCEPT !.startRefused = @ \/ initState = "failed"]
        /\ ~gameActive /\ score = 0 /\ timeLeft = RoundTime
        /\ objects = <<>> /\ particles = <<>>
        /\ ~gameLoopRunning /\ rafOther = 0 /\ awaiting = 0
\* init() has failed and a startGame call has been turned away
C35_StartTurnedAway ==
    variant = "velocity" /\ initState = "failed" /\ startRefused /\ ~gameActive

====
